---- MODULE Spec2Model ----
(***************************************************************************)
(* Validated scalar types of pgdatatypes_plus: Twid (Taiwan National ID)   *)
(* and EmailAddr.  Text is a sequence of Unicode code points; a Rust       *)
(* String is the UTF-8 encoding of that sequence, so str::len() counts     *)
(* bytes while chars() walks code points.                                  *)
(***************************************************************************)
EXTENDS Integers, Sequences, FiniteSets, TLC

VARIABLES kind, input, pc, val, text, val2, out, operands, cmps

vars == <<kind, input, pc, val, text, val2, out, operands, cmps>>

(***************************************************************************)
(* Bounds of the explored input space.                                     *)
(***************************************************************************)
MaxSerial == 3
MaxShorter == 2
MaxLonger == 1
MaxShortLen == 2
MaxLocalLen == 2
MaxDomainLen == 1
MaxCodePoint == 400
MaxOperands == 3
MaxGeoArg == 40

(***************************************************************************)
(* Characters and strings (Rust std).                                      *)
(***************************************************************************)
None == -1

\* UTF-8 encoding of one char
encode_utf8(c) ==
    IF c < 128 THEN <<c>>
    ELSE IF c < 2048 THEN <<192 + (c \div 64), 128 + (c % 64)>>
    ELSE IF c < 65536 THEN
        <<224 + (c \div 4096), 128 + ((c \div 64) % 64), 128 + (c % 64)>>
    ELSE <<240 + (c \div 262144), 128 + ((c \div 4096) % 64),
           128 + ((c \div 64) % 64), 128 + (c % 64)>>

RECURSIVE as_bytes(_)
\* str::as_bytes: the UTF-8 bytes of a string
as_bytes(s) ==
    IF s = <<>> THEN <<>> ELSE encode_utf8(Head(s)) \o as_bytes(Tail(s))

\* str::len: length in BYTES
len(s) == Len(as_bytes(s))

is_ascii_alphabetic(c) == (c \in 65..90) \/ (c \in 97..122)

is_ascii_digit(c) == c \in 48..57

\* the character code taken as the digit (c as u16)
to_digit_code(c) == IF c \in 48..57 THEN c ELSE None

\* char::to_digit(10): Some(d) or None
to_digit(c) == IF c \in 48..57 THEN c - 48 ELSE None

\* char::to_uppercase (Unicode, SpecialCasing included) on the characters
\* the model uses: one char may become several
char_to_uppercase(c) ==
    IF c \in 97..122 THEN <<c - 32>>
    ELSE IF c = 181 THEN <<924>>
    ELSE IF c = 223 THEN <<83, 83>>
    ELSE IF c \in 224..254 /\ c # 247 THEN <<c - 32>>
    ELSE IF c = 255 THEN <<376>>
    ELSE IF c = 305 THEN <<73>>
    ELSE IF c = 329 THEN <<700, 78>>
    ELSE IF c = 383 THEN <<83>>
    ELSE IF c = 496 THEN <<74, 780>>
    ELSE IF c = 64257 THEN <<70, 73>>
    ELSE <<c>>

RECURSIVE to_uppercase(_)
\* str::to_uppercase
to_uppercase(s) ==
    IF s = <<>> THEN <<>>
    ELSE char_to_uppercase(Head(s)) \o to_uppercase(Tail(s))

RECURSIVE bytes_cmp(_, _)
\* lexicographic comparison of two byte slices
bytes_cmp(x, y) ==
    IF x = <<>> /\ y = <<>> THEN "Equal"
    ELSE IF x = <<>> THEN "Less"
    ELSE IF y = <<>> THEN "Greater"
    ELSE IF Head(x) < Head(y) THEN "Less"
    ELSE IF Head(x) > Head(y) THEN "Greater"
    ELSE bytes_cmp(Tail(x), Tail(y))

\* Ord for String: byte-wise lexicographic
str_cmp(x, y) == bytes_cmp(as_bytes(x), as_bytes(y))

(***************************************************************************)
(* twid.rs                                                                 *)
(***************************************************************************)
IdLen == 10

\* strictly alphabetical numbering with only I and O moved to the end
get_region_number_alphabetical(region) ==
    LET order == <<65, 66, 67, 68, 69, 70, 71, 72, 74, 75, 76, 77, 78, 80, 81,
                   82, 83, 84, 85, 86, 87, 88, 89, 90, 73, 79>> IN
    IF \E i \in 1..26 : order[i] = region
    THEN 9 + (CHOOSE i \in 1..26 : order[i] = region)
    ELSE None

\* get_region_number: the match on the region letter
get_region_number(region) ==
    CASE region = 65 -> 10   \* A
      [] region = 66 -> 11   \* B
      [] region = 67 -> 12   \* C
      [] region = 68 -> 13   \* D
      [] region = 69 -> 14   \* E
      [] region = 70 -> 15   \* F
      [] region = 71 -> 16   \* G
      [] region = 72 -> 17   \* H
      [] region = 73 -> 34   \* I
      [] region = 74 -> 18   \* J
      [] region = 75 -> 19   \* K
      [] region = 76 -> 20   \* L
      [] region = 77 -> 21   \* M
      [] region = 78 -> 22   \* N
      [] region = 79 -> 35   \* O
      [] region = 80 -> 23   \* P
      [] region = 81 -> 24   \* Q
      [] region = 82 -> 25   \* R
      [] region = 83 -> 26   \* S
      [] region = 84 -> 27   \* T
      [] region = 85 -> 28   \* U
      [] region = 86 -> 29   \* V
      [] region = 87 -> 32   \* W
      [] region = 88 -> 30   \* X
      [] region = 89 -> 31   \* Y
      [] region = 90 -> 33   \* Z
      [] OTHER -> None

\* the gate written as an upper limit
length_ok_atmost(s) == len(s) <= IdLen

\* the length gate of is_valid_taiwan_id
length_ok(s) == len(s) = IdLen

\* any digit accepted as gender code
gender_code_ok_anydigit(c) == c \in 48..57

\* matches!(gender_char, '1' | '2' | '8' | '9')
gender_code_ok(c) == c \in {49, 50, 56, 57}

\* the ten weights of the type's doc comment
coefficients_doc == <<1, 8, 7, 6, 5, 4, 3, 2, 1, 1>>

\* the check digit weighted 2
coefficients_last2 == <<1, 9, 8, 7, 6, 5, 4, 3, 2, 1, 2>>

coefficients == <<1, 9, 8, 7, 6, 5, 4, 3, 2, 1, 1>>

Min(a, b) == IF a < b THEN a ELSE b

RECURSIVE SumSeq(_)
SumSeq(s) == IF s = <<>> THEN 0 ELSE Head(s) + SumSeq(Tail(s))

\* digits.iter().zip(coefficients.iter()).map(|(d, c)| d * c): zip stops at
\* the shorter of the two
products(digits) ==
    [i \in 1..Min(Len(digits), Len(coefficients)) |-> digits[i] * coefficients[i]]

\* TRUE when a product or a partial sum leaves u16
sum_overflows(digits) ==
    \E i \in 1..Len(products(digits)) :
        \/ products(digits)[i] > 65535
        \/ SumSeq(SubSeq(products(digits), 1, i)) > 65535

\* the u16 sum (wrapping value; sum_overflows tells when it wrapped)
weighted_sum(digits) == SumSeq(products(digits)) % 65536

\* the digit vector: region tens, region ones, then every char after the first
digit_vector(region_code, chars) ==
    <<region_code \div 10, region_code % 10>>
        \o [i \in 1..(Len(chars) - 1) |-> to_digit(chars[i + 1])]

\* is_valid_taiwan_id: [panic |-> a panic happened, value |-> the bool returned]
Returned(b) == [panic |-> FALSE, value |-> b]

Panicked == [panic |-> TRUE, value |-> FALSE]

is_valid_taiwan_id(s) ==
    IF ~length_ok(s) THEN Returned(FALSE)
    ELSE LET chars == to_uppercase(s) IN
        IF Len(chars) < 1 THEN Panicked
        ELSE IF ~is_ascii_alphabetic(chars[1]) THEN Returned(FALSE)
        ELSE IF \E i \in 2..Len(chars) : ~is_ascii_digit(chars[i])
            THEN Returned(FALSE)
        ELSE IF Len(chars) < 2 THEN Panicked
        ELSE IF ~gender_code_ok(chars[2]) THEN Returned(FALSE)
        ELSE IF get_region_number(chars[1]) = None THEN Returned(FALSE)
        ELSE LET digits == digit_vector(get_region_number(chars[1]), chars) IN
            IF \E i \in 1..Len(digits) : digits[i] = None THEN Panicked
            ELSE IF sum_overflows(digits) THEN Panicked
            ELSE Returned(weighted_sum(digits) % 10 = 0)

TwidErr == "invalid Taiwan National ID format"

\* the accepted text stored as given
Twid_from_str_keepcase(s) ==
    LET r == is_valid_taiwan_id(s) IN
    IF r.panic THEN [tag |-> "panic"]
    ELSE IF ~r.value THEN [tag |-> "err", err |-> TwidErr]
    ELSE [tag |-> "ok", data |-> s]

\* Twid::from_str
Twid_from_str(s) ==
    LET r == is_valid_taiwan_id(s) IN
    IF r.panic THEN [tag |-> "panic"]
    ELSE IF ~r.value THEN [tag |-> "err", err |-> TwidErr]
    ELSE [tag |-> "ok", data |-> to_uppercase(s)]

\* Ord for Twid
Twid_cmp(a, b) == str_cmp(a.data, b.data)

\* Display for Twid / cast_twid_to_text
Twid_to_string(v) == v.data

\* get_gender_from_twid: "M", "F", "U", or "panic" when the unwrap fails
get_gender_from_twid(s) ==
    IF len(s) < 2 THEN "U"
    ELSE IF Len(s) < 2 THEN "panic"
    ELSE IF s[2] = 49 THEN "M"
    ELSE IF s[2] = 50 THEN "F"
    ELSE IF s[2] = 56 THEN "M"
    ELSE IF s[2] = 57 THEN "F"
    ELSE "U"

\* twid_gender
twid_gender(v) == get_gender_from_twid(v.data)

\* twid_region: first char, or '?'
twid_region(v) == IF v.data = <<>> THEN <<63>> ELSE <<Head(v.data)>>

(***************************************************************************)
(* email_addr.rs                                                           *)
(***************************************************************************)
RECURSIVE last_index_of(_, _)
\* position of the last occurrence of c in s, 0 when there is none
last_index_of(s, c) ==
    IF s = <<>> THEN 0
    ELSE IF s[Len(s)] = c THEN Len(s)
    ELSE last_index_of(SubSeq(s, 1, Len(s) - 1), c)

\* text before the last '@' (rsplitn(2, '@'))
user_part(s) == SubSeq(s, 1, last_index_of(s, 64) - 1)

\* text after the last '@'
domain_part(s) == SubSeq(s, last_index_of(s, 64) + 1, Len(s))

is_ascii_alphanumeric(c) == is_ascii_alphabetic(c) \/ is_ascii_digit(c)

\* the characters the grammar allows in a local part: a-z0-9.!#$%&'*+/=?^_`{|}~-
user_char_ok(c) ==
    \/ is_ascii_alphanumeric(c)
    \/ c \in {46, 33, 35, 36, 37, 38, 39, 42, 43, 47, 61, 63, 94, 95, 96,
              123, 124, 125, 126, 45}

\* a dot-separated domain: every label is 1..63 alphanumerics or hyphens and
\* neither starts nor ends with a hyphen
domain_ok(d) ==
    /\ d # <<>>
    /\ \A i \in 1..Len(d) : is_ascii_alphanumeric(d[i]) \/ d[i] \in {45, 46}
    /\ \A i \in 1..Len(d) :
        /\ (d[i] = 46) => (i > 1 /\ i < Len(d) /\ d[i + 1] # 46)
        /\ (d[i] = 45) => (i > 1 /\ i < Len(d) /\ d[i - 1] # 46 /\ d[i + 1] # 46)
    /\ \A i \in 1..Len(d) : \A j \in i..Len(d) :
        (\A k \in i..j : d[k] # 46) => (j - i + 1 <= 63)

\* the email-grammar predicate the validator is delegated to
validate_email(s) ==
    /\ s # <<>>
    /\ last_index_of(s, 64) > 0
    /\ Len(user_part(s)) <= 64
    /\ Len(domain_part(s)) <= 255
    /\ user_part(s) # <<>>
    /\ \A i \in 1..Len(user_part(s)) : user_char_ok(user_part(s)[i])
    /\ domain_ok(domain_part(s))

EmailErr == "invalid email address format"

\* the accepted text stored in lower case
EmailAddr_from_str_lowercase(s) ==
    IF ~validate_email(s) THEN [tag |-> "err", err |-> EmailErr]
    ELSE [tag |-> "ok",
          data |-> [i \in 1..Len(s) |-> IF s[i] \in 65..90 THEN s[i] + 32 ELSE s[i]]]

\* EmailAddr::from_str
EmailAddr_from_str(s) ==
    IF ~validate_email(s) THEN [tag |-> "err", err |-> EmailErr]
    ELSE [tag |-> "ok", data |-> s]

\* comparison of the domains only
EmailAddr_cmp_domain(a, b) == str_cmp(domain_part(a.data), domain_part(b.data))

\* Ord for EmailAddr
EmailAddr_cmp(a, b) == str_cmp(a.data, b.data)

\* Display for EmailAddr / cast_emailaddr_to_text
EmailAddr_to_string(v) == v.data

(***************************************************************************)
(* Input texts.                                                            *)
(***************************************************************************)
Pow10(n) == IF n = 0 THEN 1 ELSE IF n = 1 THEN 10 ELSE IF n = 2 THEN 100
    ELSE IF n = 3 THEN 1000 ELSE IF n = 4 THEN 10000 ELSE IF n = 5 THEN 100000
    ELSE IF n = 6 THEN 1000000 ELSE IF n = 7 THEN 10000000
    ELSE IF n = 8 THEN 100000000 ELSE 1000000000

\* the n-digit decimal text of the k-th serial number
Mid(k, n) == [i \in 1..n |-> 48 + (((k * 2345678) \div Pow10(n - i)) % 10)]

\* A F I O W X Z a f i z 1 ? ! and the non-ASCII
\* U+0131 U+017F U+00DF U+00E9 U+01F0 U+FB01 U+212A
FirstChars ==
    {65, 70, 73, 79, 87, 88, 90, 97, 102, 105, 122, 49, 63, 33,
     305, 383, 223, 233, 496, 64257, 8490}

\* 0 1 2 3 8 9 A
SecondChars == {48, 49, 50, 51, 56, 57, 65}

\* 0..9 A
LastChars == (48..57) \cup {65}

MidLens == (IdLen - 3 - MaxShorter)..(IdLen - 3 + MaxLonger)

\* A 1 2 3 U+00E9 U+20AC
ShortChars == {65, 49, 50, 51, 233, 8364}

RECURSIVE StringsUpTo(_, _)
\* every string of length 0..n over the alphabet
StringsUpTo(alphabet, n) ==
    IF n = 0 THEN {<<>>}
    ELSE LET shorter == StringsUpTo(alphabet, n - 1) IN
        shorter \cup {Append(s, c) : s \in shorter, c \in alphabet}

TwidInputs ==
    {<<c0, c1>> \o Mid(k, n) \o <<c9>> :
        c0 \in FirstChars, c1 \in SecondChars, k \in 0..MaxSerial,
        n \in MidLens, c9 \in LastChars}
    \cup StringsUpTo(ShortChars, MaxShortLen)

\* a A . @
LocalChars == {97, 65, 46, 64}

\* a z .
DomainChars == {97, 122, 46}

EmailInputs ==
    {l \o <<64>> \o d :
        l \in StringsUpTo(LocalChars, MaxLocalLen),
        d \in StringsUpTo(DomainChars, MaxDomainLen)}

NoValue == [tag |-> "none"]

(***************************************************************************)
(* One value's life: parse, derive, print, parse again.                    *)
(***************************************************************************)
\* single characters, for looking up the region table
CharInputs == {<<c>> : c \in 0..MaxCodePoint}

Init ==
    /\ kind \in {"twid", "email", "char"}
    /\ input \in (CASE kind = "twid" -> TwidInputs
                   [] kind = "email" -> EmailInputs
                   [] kind = "char" -> CharInputs)
    /\ pc = "start"
    /\ val = NoValue
    /\ text = <<>>
    /\ val2 = NoValue
    /\ out = NoValue
    /\ operands = {}
    /\ cmps = <<>>

\* twid(input) / Twid::input
TwidFromStr ==
    /\ kind = "twid" /\ pc = "start"
    /\ val' = Twid_from_str(input)
    /\ pc' = "parsed"
    /\ UNCHANGED <<kind, input, text, val2, out, operands, cmps>>

\* emailaddr(input) / EmailAddr::input
EmailAddrFromStr ==
    /\ kind = "email" /\ pc = "start"
    /\ val' = EmailAddr_from_str(input)
    /\ pc' = "parsed"
    /\ UNCHANGED <<kind, input, text, val2, out, operands, cmps>>

\* is_valid_twid(input)
IsValidTwid ==
    /\ kind = "twid" /\ pc = "start"
    /\ out' = LET r == is_valid_taiwan_id(input) IN
            IF r.panic THEN [tag |-> "panic"] ELSE [tag |-> "bool", b |-> r.value]
    /\ pc' = "validated"
    /\ UNCHANGED <<kind, input, val, text, val2, operands, cmps>>

\* get_gender_from_twid called on raw text
GetGenderFromTwid ==
    /\ kind = "twid" /\ pc = "start"
    /\ out' = [tag |-> "gender", s |-> get_gender_from_twid(input)]
    /\ pc' = "extracted"
    /\ UNCHANGED <<kind, input, val, text, val2, operands, cmps>>

\* twid_gender(value)
TwidGender ==
    /\ kind = "twid" /\ pc = "parsed" /\ val.tag = "ok"
    /\ out' = [tag |-> "gender", s |-> twid_gender(val)]
    /\ pc' = "gender"
    /\ UNCHANGED <<kind, input, val, text, val2, operands, cmps>>

\* twid_region(value)
TwidRegion ==
    /\ kind = "twid" /\ pc = "parsed" /\ val.tag = "ok"
    /\ out' = [tag |-> "region", s |-> twid_region(val)]
    /\ pc' = "region"
    /\ UNCHANGED <<kind, input, val, text, val2, operands, cmps>>

\* cast_twid_to_text / Twid::output
CastTwidToText ==
    /\ kind = "twid" /\ pc = "parsed" /\ val.tag = "ok"
    /\ text' = Twid_to_string(val)
    /\ pc' = "printed"
    /\ UNCHANGED <<kind, input, val, val2, out, operands, cmps>>

\* cast_emailaddr_to_text / EmailAddr::output
CastEmailaddrToText ==
    /\ kind = "email" /\ pc = "parsed" /\ val.tag = "ok"
    /\ text' = EmailAddr_to_string(val)
    /\ pc' = "printed"
    /\ UNCHANGED <<kind, input, val, val2, out, operands, cmps>>

\* cast_text_to_twid on the printed text
CastTextToTwid ==
    /\ kind = "twid" /\ pc = "printed"
    /\ val2' = Twid_from_str(text)
    /\ pc' = "reparsed"
    /\ UNCHANGED <<kind, input, val, text, out, operands, cmps>>

\* cast_text_to_emailaddr on the printed text
CastTextToEmailaddr ==
    /\ kind = "email" /\ pc = "printed"
    /\ val2' = EmailAddr_from_str(text)
    /\ pc' = "reparsed"
    /\ UNCHANGED <<kind, input, val, text, out, operands, cmps>>

\* get_region_number called on one character
GetRegionNumber ==
    /\ kind = "char" /\ pc = "start"
    /\ out' = [tag |-> "region_number", n |-> get_region_number(input[1])]
    /\ pc' = "looked"
    /\ UNCHANGED <<kind, input, val, text, val2, operands, cmps>>

Next ==
    \/ GetRegionNumber
    \/ TwidFromStr
    \/ EmailAddrFromStr
    \/ IsValidTwid
    \/ GetGenderFromTwid
    \/ TwidGender
    \/ TwidRegion
    \/ CastTwidToText
    \/ CastEmailaddrToText
    \/ CastTextToTwid
    \/ CastTextToEmailaddr

Spec == Init /\ [][Next]_vars

(***************************************************************************)
(* A column of values of one type, compared pairwise by the type's Ord     *)
(* (PostgresEq / PostgresOrd).                                             *)
(***************************************************************************)
\* A W Z a U+0131
OrdFirstChars == {65, 87, 90, 97, 305}

OrdTwidInputs ==
    {<<c0, c1>> \o Mid(k, n) \o <<c9>> :
        c0 \in OrdFirstChars, c1 \in {49, 50}, k \in 0..MaxSerial,
        n \in {IdLen - 4, IdLen - 3}, c9 \in 48..57}

InitOrd ==
    /\ kind \in {"twid", "email"}
    /\ input = <<>>
    /\ pc = "insert"
    /\ val = NoValue
    /\ text = <<>>
    /\ val2 = NoValue
    /\ out = NoValue
    /\ operands = {}
    /\ cmps = <<>>

\* a text is parsed and, when accepted, stored
InsertTwid ==
    /\ kind = "twid" /\ pc = "insert"
    /\ Cardinality(operands) < MaxOperands
    /\ \E t \in OrdTwidInputs :
        /\ Twid_from_str(t).tag = "ok"
        /\ operands' = operands \cup {[data |-> Twid_from_str(t).data]}
    /\ UNCHANGED <<kind, input, pc, val, text, val2, out, cmps>>

InsertEmailAddr ==
    /\ kind = "email" /\ pc = "insert"
    /\ Cardinality(operands) < MaxOperands
    /\ \E t \in EmailInputs :
        /\ EmailAddr_from_str(t).tag = "ok"
        /\ operands' = operands \cup {[data |-> EmailAddr_from_str(t).data]}
    /\ UNCHANGED <<kind, input, pc, val, text, val2, out, cmps>>

\* every pair of stored values is compared
CompareTwid ==
    /\ kind = "twid" /\ pc = "insert" /\ operands # {}
    /\ cmps' = [p \in operands \X operands |-> Twid_cmp(p[1], p[2])]
    /\ pc' = "compared"
    /\ UNCHANGED <<kind, input, val, text, val2, out, operands>>

CompareEmailAddr ==
    /\ kind = "email" /\ pc = "insert" /\ operands # {}
    /\ cmps' = [p \in operands \X operands |-> EmailAddr_cmp(p[1], p[2])]
    /\ pc' = "compared"
    /\ UNCHANGED <<kind, input, val, text, val2, out, operands>>

NextOrd ==
    \/ InsertTwid
    \/ InsertEmailAddr
    \/ CompareTwid
    \/ CompareEmailAddr

SpecOrd == InitOrd /\ [][NextOrd]_vars

(***************************************************************************)
(* Properties.                                                             *)
(***************************************************************************)
IsAscii(s) == \A i \in 1..Len(s) : s[i] < 128

AsciiUpper(s) == [i \in 1..Len(s) |-> IF s[i] \in 97..122 THEN s[i] - 32 ELSE s[i]]

AsciiLower(s) == [i \in 1..Len(s) |-> IF s[i] \in 65..90 THEN s[i] + 32 ELSE s[i]]

SwapCase(s) ==
    [i \in 1..Len(s) |-> IF s[i] \in 97..122 THEN s[i] - 32
                         ELSE IF s[i] \in 65..90 THEN s[i] + 32 ELSE s[i]]

\* ABCDEFGHJKLMNPQRSTUVXYWZIO
RegionSequence ==
    <<65, 66, 67, 68, 69, 70, 71, 72, 74, 75, 76, 77, 78, 80, 81, 82, 83, 84,
      85, 86, 88, 89, 87, 90, 73, 79>>

\* 10 plus the zero-based position in RegionSequence
SequenceCode(c) ==
    IF \E i \in 1..Len(RegionSequence) : RegionSequence[i] = c
    THEN 9 + (CHOOSE i \in 1..Len(RegionSequence) : RegionSequence[i] = c)
    ELSE None

\* letter, then nine digits, the first of them 1, 2, 8 or 9
FormatOk(s) ==
    /\ Len(s) = 10
    /\ (s[1] \in 65..90) \/ (s[1] \in 97..122)
    /\ \A i \in 2..10 : s[i] \in 48..57
    /\ s[2] \in {49, 50, 56, 57}

StatedWeights == <<1, 9, 8, 7, 6, 5, 4, 3, 2, 1, 1>>

StatedDigits(s) ==
    LET code == SequenceCode(AsciiUpper(s)[1]) IN
    <<code \div 10, code % 10>> \o [i \in 1..9 |-> s[i + 1] - 48]

StatedSum(s) == SumSeq([i \in 1..11 |-> StatedDigits(s)[i] * StatedWeights[i]])

\* C1: a Twid produced by a successful parse holds 10 characters, an
\* uppercase letter followed by nine digits with the second character in
\* 1, 2, 8, 9, and its data passes is_valid_taiwan_id.
C1_StoredDataValid ==
    (kind = "twid" /\ val.tag = "ok") =>
        /\ Len(val.data) = 10
        /\ val.data[1] \in 65..90
        /\ \A i \in 2..Len(val.data) : val.data[i] \in 48..57
        /\ val.data[2] \in {49, 50, 56, 57}
        /\ is_valid_taiwan_id(val.data) = Returned(TRUE)

C3_RoundTrip == (pc = "reparsed") => (val2.tag = "ok" /\ val2 = val)

\* C4: emails are ordered by domain first and by local part when the
\* domains are equal.
C4_DomainFirst ==
    (kind = "email" /\ pc = "compared") =>
        \A a \in operands : \A b \in operands :
            LET d == str_cmp(domain_part(a.data), domain_part(b.data)) IN
            /\ (d = "Less") => (cmps[<<a, b>>] = "Less")
            /\ (d = "Equal") =>
                (cmps[<<a, b>>] = str_cmp(user_part(a.data), user_part(b.data)))

\* C5: Twid parsing ignores the case of ASCII text and stores the
\* uppercased text.
C5_CaseInsensitive ==
    /\ (pc = "validated" /\ IsAscii(input)) =>
        (out.tag = "bool" /\ out.b = is_valid_taiwan_id(SwapCase(input)).value)
    /\ (kind = "twid" /\ pc = "parsed" /\ IsAscii(input)) =>
        /\ (val.tag = "ok") = is_valid_taiwan_id(SwapCase(input)).value
        /\ (val.tag = "ok") =>
            /\ val.data = AsciiUpper(input)
            /\ Twid_from_str(AsciiLower(input)) = val
            /\ Twid_from_str(AsciiUpper(input)) = val

C5_Witness ==
    kind = "twid" /\ pc = "parsed" /\ val.tag = "ok" /\ input[1] \in 97..122

Reverse(o) == IF o = "Less" THEN "Greater" ELSE IF o = "Greater" THEN "Less" ELSE o

\* C6: each comparator is a total order consistent with equality.
C6_TotalOrder ==
    (pc = "compared") =>
        \A a \in operands : \A b \in operands :
            /\ cmps[<<a, b>>] \in {"Less", "Equal", "Greater"}
            /\ (cmps[<<a, b>>] = "Equal") = (a = b)
            /\ cmps[<<a, b>>] = Reverse(cmps[<<b, a>>])
            /\ \A c \in operands :
                (cmps[<<a, b>>] = "Less" /\ cmps[<<b, c>>] = "Less")
                    => (cmps[<<a, c>>] = "Less")

C6_Witness ==
    /\ pc = "compared" /\ Cardinality(operands) = 3
    /\ \E a \in operands : \E b \in operands : \E c \in operands :
        cmps[<<a, b>>] = "Less" /\ cmps[<<b, c>>] = "Less"

\* C7: get_gender_from_twid returns M, F or U on every text and never panics.
C7_GenderTotal ==
    (pc = "extracted") =>
        out.s = (IF Len(input) >= 2 /\ input[2] \in {49, 56} THEN "M"
                 ELSE IF Len(input) >= 2 /\ input[2] \in {50, 57} THEN "F"
                 ELSE "U")

\* C8: Twid::from_str and is_valid_twid never panic, and every rejection
\* carries the one error text.
C8_NoPanic ==
    /\ (pc = "validated") => (out.tag = "bool")
    /\ (kind = "twid" /\ pc \in {"parsed", "reparsed"}) =>
        /\ val.tag \in {"ok", "err"}
        /\ (val.tag = "err") => (val.err = "invalid Taiwan National ID format")
    /\ (kind = "twid" /\ pc = "reparsed") =>
        /\ val2.tag \in {"ok", "err"}
        /\ (val2.tag = "err") => (val2.err = "invalid Taiwan National ID format")

C8_Witness ==
    /\ kind = "twid" /\ pc = "parsed" /\ val.tag = "err"
    /\ ~IsAscii(input) /\ len(input) = 10

\* C9: get_region_number maps exactly A-Z, one to one onto 10..35, each
\* letter to 10 plus its position in ABCDEFGHJKLMNPQRSTUVXYWZIO.
C9_RegionTable ==
    /\ (pc = "looked") => (out.n = SequenceCode(input[1]))
    /\ (pc = "looked" /\ input[1] \notin 65..90) => (out.n = None)
    /\ {get_region_number(c) : c \in 65..90} = 10..35

C9_Witness == pc = "looked" /\ input[1] = 87 /\ out.n = 32

\* C10: on a parsed Twid the gender is M or F and the region is the first
\* character of the data, an uppercase letter of the region table.
C10_NoFallback ==
    /\ (pc = "gender") => (out.s \in {"M", "F"})
    /\ (pc = "region") =>
        /\ out.s = <<val.data[1]>>
        /\ out.s[1] \in 65..90
        /\ get_region_number(out.s[1]) # None

C10_Witness == pc = "gender" /\ out.s = "F" /\ val.tag = "ok"

(***************************************************************************)
(* geohash.rs: the integer arguments of the wrappers.  The library calls   *)
(* (encode, neighbor) are recorded as the call made, not evaluated.        *)
(***************************************************************************)
\* `n as usize` of an i32 on a 64-bit target: sign-extended two's complement,
\* as four 16-bit limbs, least significant first
as_usize(n) ==
    <<n % 65536, (n \div 65536) % 65536,
      IF n < 0 THEN 65535 ELSE 0, IF n < 0 THEN 65535 ELSE 0>>

PrecisionErr == "Precision must be between 1 and 12"

DirectionErr == "Invalid direction. Must be 0-7 (N, NE, E, SE, S, SW, W, NW)"

\* the lower limit placed at 0
geohash_encode_with_precision_from0(precision) ==
    IF precision < 0 \/ precision > 12
    THEN [tag |-> "err", err |-> PrecisionErr]
    ELSE [tag |-> "encode", len |-> as_usize(precision)]

\* geohash_encode_with_precision: the error, or the encode call made
geohash_encode_with_precision(precision) ==
    IF precision < 1 \/ precision > 12
    THEN [tag |-> "err", err |-> PrecisionErr]
    ELSE [tag |-> "encode", len |-> as_usize(precision)]

\* geohash_neighbor: the error, or the neighbor call made
geohash_neighbor(direction) ==
    CASE direction = 0 -> [tag |-> "neighbor", dir |-> "N"]
      [] direction = 1 -> [tag |-> "neighbor", dir |-> "NE"]
      [] direction = 2 -> [tag |-> "neighbor", dir |-> "E"]
      [] direction = 3 -> [tag |-> "neighbor", dir |-> "SE"]
      [] direction = 4 -> [tag |-> "neighbor", dir |-> "S"]
      [] direction = 5 -> [tag |-> "neighbor", dir |-> "SW"]
      [] direction = 6 -> [tag |-> "neighbor", dir |-> "W"]
      [] direction = 7 -> [tag |-> "neighbor", dir |-> "NW"]
      [] OTHER -> [tag |-> "err", err |-> DirectionErr]

\* i32 arguments around the accepted ranges, and the two ends of i32
GeoArgs ==
    ((0 - MaxGeoArg)..(12 + MaxGeoArg)) \cup {2147483647, (0 - 2147483647) - 1}

\* input holds the one integer argument
InitGeo ==
    /\ kind = "geo"
    /\ input \in {<<n>> : n \in GeoArgs}
    /\ pc = "start"
    /\ val = NoValue
    /\ text = <<>>
    /\ val2 = NoValue
    /\ out = NoValue
    /\ operands = {}
    /\ cmps = <<>>

GeohashEncodeWithPrecision ==
    /\ kind = "geo" /\ pc = "start"
    /\ out' = geohash_encode_with_precision(input[1])
    /\ pc' = "encoded"
    /\ UNCHANGED <<kind, input, val, text, val2, operands, cmps>>

GeohashNeighbor ==
    /\ kind = "geo" /\ pc = "start"
    /\ out' = geohash_neighbor(input[1])
    /\ pc' = "neighbor"
    /\ UNCHANGED <<kind, input, val, text, val2, operands, cmps>>

NextGeo ==
    \/ GeohashEncodeWithPrecision
    \/ GeohashNeighbor

SpecGeo == InitGeo /\ [][NextGeo]_vars

\* C12: the geohash wrappers reject a precision outside 1..12 and a
\* direction outside 0..7 without calling the library, and otherwise call it
\* with that precision, or with N, NE, E, SE, S, SW, W, NW for 0..7.
C12_ArgsValidated ==
    /\ (pc = "encoded") =>
        (IF input[1] >= 1 /\ input[1] <= 12
         THEN out = [tag |-> "encode", len |-> <<input[1], 0, 0, 0>>]
         ELSE out.tag = "err")
    /\ (pc = "neighbor") =>
        (IF input[1] >= 0 /\ input[1] <= 7
         THEN out = [tag |-> "neighbor",
                     dir |-> <<"N", "NE", "E", "SE", "S", "SW", "W", "NW">>[input[1] + 1]]
         ELSE out.tag = "err")

C12_Witness == pc = "encoded" /\ input[1] = 0 /\ out.tag = "err"

C13_OneCheckDigit ==
    (pc = "validated" /\ IsAscii(input) /\ FormatOk(input)) =>
        LET accepted == {d \in 48..57 :
                is_valid_taiwan_id(Append(SubSeq(input, 1, 9), d)).value} IN
        /\ Cardinality(accepted) = 1
        /\ out.tag = "bool"
        /\ out.b = (input[10] \in accepted)

C13_Witness ==
    /\ pc = "validated" /\ IsAscii(input) /\ FormatOk(input)
    /\ out.tag = "bool" /\ ~out.b
    /\ is_valid_taiwan_id(Append(SubSeq(input, 1, 9), 48)).value

\* the text passes every check made before the summation
ReachesSum(s) ==
    /\ length_ok(s)
    /\ is_ascii_alphabetic(to_uppercase(s)[1])
    /\ \A i \in 2..Len(to_uppercase(s)) : is_ascii_digit(to_uppercase(s)[i])
    /\ gender_code_ok(to_uppercase(s)[2])
    /\ get_region_number(to_uppercase(s)[1]) # None

SumDigits(s) == digit_vector(get_region_number(to_uppercase(s)[1]), to_uppercase(s))

\* C14: in the checksum every digit is in 0..9, every product is at most 81
\* and the sum is at most 423, so the u16 sum never overflows and sum % 10 is
\* the mathematical sum modulo 10.
C14_NoOverflow ==
    (pc = "validated" /\ ReachesSum(input)) =>
        /\ \A i \in 1..Len(SumDigits(input)) : SumDigits(input)[i] \in 0..9
        /\ \A i \in 1..Len(products(SumDigits(input))) :
            products(SumDigits(input))[i] <= 81
        /\ SumSeq(products(SumDigits(input))) <= 423
        /\ ~sum_overflows(SumDigits(input))
        /\ weighted_sum(SumDigits(input)) = SumSeq(products(SumDigits(input)))
        /\ out = [tag |-> "bool", b |-> (SumSeq(products(SumDigits(input))) % 10 = 0)]

C14_Witness ==
    /\ pc = "validated" /\ ReachesSum(input) /\ out.tag = "bool" /\ out.b
    /\ SumSeq(products(SumDigits(input))) >= 200

====
